---- MODULE Spec2Model ----
(***************************************************************************)
(* astropy.coordinates: the representation classes of representation.py    *)
(* (Cartesian, Spherical, UnitSpherical, PhysicsSpherical, Cylindrical)    *)
(* and the CIRS <-> AltAz edges of cirs_observed_transforms.py.            *)
(*                                                                         *)
(* Numbers are IEEE doubles on a lattice: angles are whole multiples of    *)
(* 90 degrees and lengths are whole numbers.  On that lattice the only     *)
(* rounding that shows is the residual of the trigonometric functions at a *)
(* multiple of 90 degrees (cos(pi/2) = 6.1e-17, sin(pi) = 1.2e-16) and the *)
(* sign of a zero; a number is therefore kept as sign, magnitude and the   *)
(* order of that residual.                                                 *)
(***************************************************************************)
EXTENDS Integers, Sequences, FiniteSets, TLC

\* ------------------------------------------------------------ bounds
\* longest array a component holds
MaxLen == 3
\* largest magnitude of a length, distance or coordinate
MaxDist == 2
\* latest instant an observation time holds
MaxTime == 1
\* longest array of instants an observation time holds
MaxTimes == 2

\* ------------------------------------------------------------ doubles
\* s * m * d^k, d the rounding residual of pi; m = 0 is a signed zero.
Num(s, m, k) == [s |-> s, m |-> m, k |-> IF m = 0 THEN 0 ELSE k]
N(i) == Num(IF i < 0 THEN -1 ELSE 1, IF i < 0 THEN -i ELSE i, 0)
Abs(i) == IF i < 0 THEN -i ELSE i
Sgn(i) == IF i < 0 THEN -1 ELSE 1

\* The value to floating-point tolerance: a residual is zero.
Approx(a) == IF a.k > 0 THEN 0 ELSE a.s * a.m

Mul(a, b) == Num(a.s * b.s, a.m * b.m, a.k + b.k)

\* a + b of two numbers that are not negative (sums of squares): the term
\* of the lower order absorbs the other.
Add(a, b) ==
    IF a.m = 0 THEN (IF b.m = 0 THEN Num(1, 0, 0) ELSE b)
    ELSE IF b.m = 0 THEN a
    ELSE IF a.k < b.k THEN a
    ELSE IF b.k < a.k THEN b
    ELSE Num(1, a.m + b.m, a.k)

IsSquare(n) == \E r \in 0..n : r * r = n
ISqrt(n) == CHOOSE r \in 0..n : r * r = n
Sqrt(a) == Num(1, ISqrt(a.m), a.k \div 2)

\* cos and sin of q * 90 degrees as numpy computes them from the radians
\* float(q * pi / 2): exact at the even (odd) quarters, a residual of the
\* sign the rounded argument gives at the others.
CosExact(q) == IF q % 4 = 0 THEN 1 ELSE IF q % 4 = 2 THEN -1 ELSE 0
SinExact(q) == IF q % 4 = 1 THEN 1 ELSE IF q % 4 = 3 THEN -1 ELSE 0
Cos(a) ==
    LET q == Approx(a) \div 90
    IN  IF q % 2 = 0 THEN N(CosExact(q))
        ELSE Num(Sgn(q) * SinExact(q), Abs(q), 1)
Sin(a) ==
    LET q == Approx(a) \div 90
    IN  IF q % 2 # 0 THEN N(SinExact(q))
        ELSE IF q = 0 THEN Num(a.s, 0, 0)
        ELSE Num(-Sgn(q) * CosExact(q), Abs(q), 1)

\* np.arctan2(y, x) in degrees, rounded to the lattice.  Where both are
\* zero the signs of the zeros decide, as in IEEE 754.
Arctan2(y, x) ==
    IF y.m = 0 \/ (x.m # 0 /\ x.k < y.k)
    THEN (IF x.s = 1 THEN Num(y.s, 0, 0) ELSE N(y.s * 180))
    ELSE N(y.s * 90)

\* The pairs arctan2 is computed for lie on the lattice: not both of the
\* same order unless one is zero.
OnAxis(y, x) == y.m = 0 \/ x.m = 0 \/ y.k # x.k

\* ------------------------------------------------------------ quantities
\* A Quantity: its class (Quantity, Distance, Angle, Longitude, Latitude),
\* the physical type of its unit, its shape (<<>> or <<n>>) and its values.
Q(type, pt, shape, v) == [type |-> type, pt |-> pt, shape |-> shape, v |-> v]
None == Q("None", "None", <<>>, <<>>)
Size(shape) == IF shape = <<>> THEN 1 ELSE shape[1]
\* Tuple(f) is the sequence f, held as a tuple of its values.
Tuple(f) == f \o <<>>
Fill(shape, x) == Tuple([i \in 1..Size(shape) |-> x])
Map1(Op(_), a) == Tuple([i \in 1..Len(a) |-> Op(a[i])])
Map2(Op(_, _), a, b) == Tuple([i \in 1..Len(a) |-> Op(a[i], b[i])])

IsAll(P(_), v) == \A i \in 1..Len(v) : P(v[i])

\* ------------------------------------------------------------ results
\* What a call returns: an error, or a representation that is either an
\* object that already existed (id > 0) or a newly constructed one (id = 0).
NoRep == [cls |-> "None"]
Raise(e) == [err |-> e, id |-> 0, obj |-> NoRep]
Fresh(obj) == [err |-> "none", id |-> 0, obj |-> obj]
Existing(id, obj) == [err |-> "none", id |-> id, obj |-> obj]

\* np.broadcast_arrays: scalars and arrays of one element stretch to the
\* common length; two different lengths above one do not broadcast.
Lengths(args) == {args[i].shape[1] : i \in {j \in 1..Len(args) : args[j].shape # <<>>}}
Broadcastable(args) == Cardinality(Lengths(args) \ {1}) <= 1
CommonShape(args) ==
    IF Lengths(args) = {} THEN <<>>
    ELSE IF Lengths(args) \ {1} = {} THEN <<1>>
    ELSE <<CHOOSE n \in Lengths(args) \ {1} : TRUE>>
Stretch(q, shape) ==
    Q(q.type, q.pt, shape,
      Tuple([i \in 1..Size(shape) |-> IF Len(q.v) = 1 THEN q.v[1] ELSE q.v[i]]))
\* Variant: the components are kept as they were given.
Unstretched(args) == args

broadcast_quantity(args) ==
    Tuple([i \in 1..Len(args) |-> Stretch(args[i], CommonShape(args))])

\* ------------------------------------------------------------ units, angles
\* u.Quantity(x, unit=unit): a bare number takes the unit (dimensionless
\* when there is none); a Quantity keeps its own and loses its subclass.
AsQuantity(x, unit) ==
    Q("Quantity",
      IF unit # "None" THEN unit
      ELSE IF x.type = "float" THEN "dimensionless" ELSE x.pt,
      x.shape, x.v)

Angle(a) == Q("Angle", "angle", a.shape, a.v)
\* Longitude wraps into [0, 360) degrees.
Wrap(x) == N(Approx(x) % 360)
Longitude(a) == Q("Longitude", "angle", a.shape, Map1(Wrap, a.v))
\* Latitude refuses values outside [-90, 90] degrees.
InLatRange(x) == -90 <= Approx(x) /\ Approx(x) <= 90
LatitudeOk(a) == IsAll(InLatRange, a.v)
Latitude(a) == Q("Latitude", "angle", a.shape, a.v)
Distance(d) == Q("Distance", d.pt, d.shape, d.v)
\* distance: a Distance when it is a length, a plain Quantity otherwise.
AsDistance(distance) ==
    IF distance.type # "float" /\ distance.pt = "length"
    THEN Distance(distance)
    ELSE AsQuantity(distance, "None")

\* ------------------------------------------------------------ constructors
\* Variant: x, y and z are broadcast without comparing their physical types.
CartesianInitUnchecked(qx, qy, qz) ==
    IF ~Broadcastable(<<qx, qy, qz>>) THEN Raise("ValueError")
    ELSE LET b == broadcast_quantity(<<qx, qy, qz>>)
         IN  Fresh([cls |-> "Cartesian", x |-> b[1], y |-> b[2], z |-> b[3]])

CartesianInit(qx, qy, qz) ==
    IF ~(qx.pt = qy.pt /\ qy.pt = qz.pt) THEN Raise("UnitsError")
    ELSE IF ~Broadcastable(<<qx, qy, qz>>) THEN Raise("ValueError")
    ELSE LET b == broadcast_quantity(<<qx, qy, qz>>)
         IN  Fresh([cls |-> "Cartesian", x |-> b[1], y |-> b[2], z |-> b[3]])

Item(x, i) == Q(x.type, x.pt, <<>>, <<x.v[i]>>)

CartesianRepresentation(x, y, z, unit) ==
    IF y = None /\ z = None
    THEN \* x, y, z = x
         IF x.shape = <<>> THEN Raise("TypeError")
         ELSE IF x.shape # <<3>> THEN Raise("ValueError")
         ELSE CartesianInit(AsQuantity(Item(x, 1), unit),
                            AsQuantity(Item(x, 2), unit),
                            AsQuantity(Item(x, 3), unit))
    ELSE IF y = None \/ z = None THEN Raise("ValueError")
    ELSE CartesianInit(AsQuantity(x, unit), AsQuantity(y, unit), AsQuantity(z, unit))

SphericalRepresentation(lon, lat, distance) ==
    IF ~LatitudeOk(lat) THEN Raise("ValueError")
    ELSE LET args == <<Longitude(lon), Latitude(lat), AsDistance(distance)>>
         IN  IF ~Broadcastable(args) THEN Raise("ValueError")
             ELSE LET b == broadcast_quantity(args)
                  IN  Fresh([cls |-> "Spherical", lon |-> b[1], lat |-> b[2],
                             distance |-> b[3]])

UnitSphericalRepresentation(lon, lat) ==
    IF ~LatitudeOk(lat) THEN Raise("ValueError")
    ELSE LET args == <<Longitude(lon), Latitude(lat)>>
         IN  IF ~Broadcastable(args) THEN Raise("ValueError")
             ELSE LET b == broadcast_quantity(args)
                  IN  Fresh([cls |-> "UnitSpherical", lon |-> b[1], lat |-> b[2]])

PhysicsSphericalRepresentation(phi, theta, distance) ==
    LET args == <<Angle(phi), Angle(theta), AsDistance(distance)>>
    IN  IF ~Broadcastable(args) THEN Raise("ValueError")
        ELSE LET b == broadcast_quantity(args)
             IN  Fresh([cls |-> "PhysicsSpherical", phi |-> b[1], theta |-> b[2],
                        distance |-> b[3]])

CylindricalRepresentation(rho, phi, z) ==
    LET qrho == AsQuantity(rho, "None")
        qphi == Angle(phi)
        qz == AsQuantity(z, "None")
    IN  IF ~(qrho.pt = qz.pt) THEN Raise("UnitsError")
        ELSE IF ~Broadcastable(<<qrho, qphi, qz>>) THEN Raise("ValueError")
        ELSE LET b == broadcast_quantity(<<qrho, qphi, qz>>)
             IN  Fresh([cls |-> "Cylindrical", rho |-> b[1], phi |-> b[2], z |-> b[3]])

\* ------------------------------------------------------------ state
VARIABLES
    numpy,   \* how this build's numpy assigns through a boolean mask
    heap,    \* the representations alive, by identity (index)
    call,    \* the last call made and what it returned
    edge,    \* the last frame transform invoked and what it returned
    registry, \* the edges of the transform graph, as pairs of frame classes
    threads  \* the transform each thread is making, and how far it is

vars == <<numpy, heap, call, edge, registry, threads>>

\* a[mask] = values with more values than the mask selects: numpy from 1.9
\* raises ValueError; older releases take the leading values in order.
Builds == {"strict", "legacy"}

\* The transform graph.  The decorators of cirs_observed_transforms.py
\* register three edges when the module is imported; the CIRS -> CIRS edge
\* that its lines 39 and 90 call is registered elsewhere.
FrameClasses == {"CIRS", "AltAz", "ITRS", "GCRS"}
Registered == {<<"CIRS", "AltAz">>, <<"AltAz", "CIRS">>, <<"AltAz", "AltAz">>}
Elsewhere == {<<"CIRS", "CIRS">>}
Loaded == Registered \cup Elsewhere

\* ------------------------------------------------------------ conversions
\* Quantity arithmetic, element by element.
Times(d, f) == Q("Quantity", d.pt, d.shape, Map2(Mul, d.v, f.v))
CosQ(a) == Q("Quantity", "dimensionless", a.shape, Map1(Cos, a.v))
SinQ(a) == Q("Quantity", "dimensionless", a.shape, Map1(Sin, a.v))
Sq(x) == Mul(x, x)
Square(q) == Q("Quantity", q.pt, q.shape, Map1(Sq, q.v))
Plus(a, b) == Q("Quantity", a.pt, a.shape, Map2(Add, a.v, b.v))
Root(q) == Q("Quantity", q.pt, q.shape, Map1(Sqrt, q.v))
Arctan2Q(y, x) == Q("Quantity", "angle", y.shape, Map2(Arctan2, y.v, x.v))
\* 90 * u.deg - a
Colat(x) == N(90 - Approx(x))
NinetyMinus(a) == Q("Quantity", "angle", a.shape, Map1(Colat, a.v))
\* distance.view(u.Quantity)
View(d) == Q("Quantity", d.pt, d.shape, d.v)

Cartesian_to_cartesian(self) == self
Cartesian_from_cartesian(other) == other

Spherical_to_cartesian(self) ==
    LET d == IF self.obj.distance.type = "Distance"
             THEN View(self.obj.distance) ELSE self.obj.distance
        x == Times(Times(d, CosQ(self.obj.lat)), CosQ(self.obj.lon))
        y == Times(Times(d, CosQ(self.obj.lat)), SinQ(self.obj.lon))
        z == Times(d, SinQ(self.obj.lat))
    IN  CartesianRepresentation(x, y, z, "None")

Spherical_from_cartesian(cart) ==
    LET xsq == Square(cart.obj.x)
        ysq == Square(cart.obj.y)
        zsq == Square(cart.obj.z)
        r == Root(Plus(Plus(xsq, ysq), zsq))
        s == Root(Plus(xsq, ysq))
        lon == Arctan2Q(cart.obj.y, cart.obj.x)
        lat == Arctan2Q(cart.obj.z, s)
    IN  SphericalRepresentation(lon, lat, r)

UnitSpherical_to_cartesian(self) ==
    LET one == Q("Quantity", "dimensionless", self.obj.lat.shape,
                 Fill(self.obj.lat.shape, N(1)))
        x == Times(Times(one, CosQ(self.obj.lat)), CosQ(self.obj.lon))
        y == Times(Times(one, CosQ(self.obj.lat)), SinQ(self.obj.lon))
        z == Times(one, SinQ(self.obj.lat))
    IN  CartesianRepresentation(x, y, z, "None")

UnitSpherical_from_cartesian(cart) ==
    LET xsq == Square(cart.obj.x)
        ysq == Square(cart.obj.y)
        s == Root(Plus(xsq, ysq))
        lon == Arctan2Q(cart.obj.y, cart.obj.x)
        lat == Arctan2Q(cart.obj.z, s)
    IN  UnitSphericalRepresentation(lon, lat)

PhysicsSpherical_to_cartesian(self) ==
    LET d == IF self.obj.distance.type = "Distance"
             THEN View(self.obj.distance) ELSE self.obj.distance
        x == Times(Times(d, SinQ(self.obj.theta)), CosQ(self.obj.phi))
        y == Times(Times(d, SinQ(self.obj.theta)), SinQ(self.obj.phi))
        z == Times(d, CosQ(self.obj.theta))
    IN  CartesianRepresentation(x, y, z, "None")

PhysicsSpherical_from_cartesian(cart) ==
    LET xsq == Square(cart.obj.x)
        ysq == Square(cart.obj.y)
        zsq == Square(cart.obj.z)
        r == Root(Plus(Plus(xsq, ysq), zsq))
        s == Root(Plus(xsq, ysq))
        phi == Arctan2Q(cart.obj.y, cart.obj.x)
        theta == Arctan2Q(s, cart.obj.z)
    IN  PhysicsSphericalRepresentation(phi, theta, r)

\* phi[mask] = values: the i-th selected element takes the i-th value
\* (legacy numpy), where it should take the value at its own index.
Selected(mask) == {i \in 1..Len(mask) : mask[i]}
Rank(mask, i) == Cardinality({j \in Selected(mask) : j <= i})
MaskedAssign(phi, mask, values) ==
    Tuple([i \in 1..Len(phi) |-> IF mask[i] THEN values[Rank(mask, i)] ELSE phi[i]])

Positive(x) == x.m > 0 /\ x.s = 1

Cylindrical_from_cartesian(cart) ==
    LET rho == Root(Plus(Square(cart.obj.x), Square(cart.obj.y)))
        zeros == Fill(cart.obj.x.shape, N(0))
        mask == Map1(Positive, rho.v)
        values == Arctan2Q(cart.obj.y, cart.obj.x).v
        count == Cardinality(Selected(mask))
        z == cart.obj.z
        fits == cart.obj.x.shape = <<>> \/ Len(values) = 1 \/ count = Len(values)
    IN  IF ~fits /\ numpy = "strict" THEN Raise("ValueError")
        ELSE CylindricalRepresentation(
                 rho,
                 Q("Quantity", "angle", cart.obj.x.shape, MaskedAssign(zeros, mask, values)),
                 z)

Cylindrical_to_cartesian(self) ==
    LET x == Times(self.obj.rho, CosQ(self.obj.phi))
        y == Times(self.obj.rho, SinQ(self.obj.phi))
        z == self.obj.z
    IN  CartesianRepresentation(x, y, z, "None")

Classes == {"Cartesian", "Spherical", "UnitSpherical", "PhysicsSpherical", "Cylindrical"}

to_cartesian(self) ==
    CASE self.obj.cls = "Cartesian" -> Cartesian_to_cartesian(self)
      [] self.obj.cls = "Spherical" -> Spherical_to_cartesian(self)
      [] self.obj.cls = "UnitSpherical" -> UnitSpherical_to_cartesian(self)
      [] self.obj.cls = "PhysicsSpherical" -> PhysicsSpherical_to_cartesian(self)
      [] self.obj.cls = "Cylindrical" -> Cylindrical_to_cartesian(self)

from_cartesian(cls, cart) ==
    CASE cls = "Cartesian" -> Cartesian_from_cartesian(cart)
      [] cls = "Spherical" -> Spherical_from_cartesian(cart)
      [] cls = "UnitSpherical" -> UnitSpherical_from_cartesian(cart)
      [] cls = "PhysicsSpherical" -> PhysicsSpherical_from_cartesian(cart)
      [] cls = "Cylindrical" -> Cylindrical_from_cartesian(cart)

\* other_class.from_cartesian(self.to_cartesian())
ViaCartesian(self, other_class) ==
    LET cart == to_cartesian(self)
    IN  IF cart.err # "none" THEN cart ELSE from_cartesian(other_class, cart)

\* Variant: the generic path without the same-class short cut.
AlwaysViaCartesian(self, other_class) == ViaCartesian(self, other_class)

BaseRepresentation_represent_as(self, other_class) ==
    IF other_class = self.obj.cls THEN self
    ELSE ViaCartesian(self, other_class)

\* Variant: the short cut hands the latitude over as the polar angle.
LatitudeAsTheta(self, other_class) ==
    IF other_class = "PhysicsSpherical"
    THEN PhysicsSphericalRepresentation(self.obj.lon, self.obj.lat, self.obj.distance)
    ELSE BaseRepresentation_represent_as(self, other_class)

SphericalRepresentation_represent_as(self, other_class) ==
    IF other_class = "PhysicsSpherical"
    THEN PhysicsSphericalRepresentation(self.obj.lon, NinetyMinus(self.obj.lat),
                                        self.obj.distance)
    ELSE BaseRepresentation_represent_as(self, other_class)

PhysicsSphericalRepresentation_represent_as(self, other_class) ==
    IF other_class = "Spherical"
    THEN SphericalRepresentation(self.obj.phi, NinetyMinus(self.obj.theta),
                                 self.obj.distance)
    ELSE BaseRepresentation_represent_as(self, other_class)

represent_as(self, other_class) ==
    CASE self.obj.cls = "Spherical" -> SphericalRepresentation_represent_as(self, other_class)
      [] self.obj.cls = "PhysicsSpherical" ->
             PhysicsSphericalRepresentation_represent_as(self, other_class)
      [] OTHER -> BaseRepresentation_represent_as(self, other_class)

from_representation(cls, representation) == represent_as(representation, cls)

\* ------------------------------------------------------------ inputs
Shapes == {<<>>} \cup {<<n>> : n \in 1..MaxLen}
Lin == -MaxDist..MaxDist
\* The lattice directions, a full turn and one quarter below zero.
Quarters == {-90, 0, 90, 180, 270, 360}
PhysTypes == {"length", "dimensionless"}
Units == {"None"} \cup PhysTypes

Scalar(type, pt, i) == Q(type, pt, <<>>, <<N(i)>>)
Filled(type, pt, shape, i) == Q(type, pt, shape, Fill(shape, N(i)))

\* Scalar components over the whole lattice.  A negative distance is drawn
\* as a plain (dimensionless) Quantity only: a length goes to Distance.
Distances ==
    {Scalar("Quantity", "length", d) : d \in 0..MaxDist}
        \cup {Scalar("Quantity", "dimensionless", d) : d \in Lin}
Angles == {Scalar("Quantity", "angle", a) : a \in Quarters}
Lengths3 ==
    {<<Scalar("Quantity", pt, x), Scalar("Quantity", pt, y), Scalar("Quantity", pt, z)>> :
        x \in Lin, y \in Lin, z \in Lin, pt \in PhysTypes}

\* Arrays of points: on the z axis (rho = 0) and on the x and y axes.
AxisPoints == {<<0, 0, 0>>, <<0, 0, 1>>, <<1, 0, 0>>, <<0, 1, 0>>, <<-1, 0, 1>>, <<0, -1, 0>>}
PointArrays == UNION {[1..n -> AxisPoints] : n \in 1..MaxLen}
\* Arrays of cylindrical points (rho, phi, z): on the axis with phi = 0, and
\* off it.
RadialArrays == UNION {[1..n -> {<<0, 0, 0>>, <<1, 0, 0>>, <<1, 90, 0>>}] : n \in 1..MaxLen}
Column(ps, c) ==
    Q("Quantity", "length", <<Len(ps)>>, Tuple([i \in 1..Len(ps) |-> N(ps[i][c])]))

\* Components of every shape and physical type, one value throughout, and
\* bare numbers.
Linear(i) ==
    {Filled("Quantity", pt, sh, i) : sh \in Shapes, pt \in PhysTypes}
        \cup {Scalar("float", "None", i)}
Angular(a) == {Filled("Quantity", "angle", sh, a) : sh \in Shapes}

\* u.Quantity(x, unit=unit) converts x; the units drawn are convertible.
Convertible(x, unit) == unit = "None" \/ x.type \in {"float", "None"} \/ x.pt = unit

Args(cls) ==
    CASE cls = "Cartesian" ->
            {<<a[1], a[2], a[3], "None">> : a \in Lengths3}
                \cup {<<Column(ps, 1), Column(ps, 2), Column(ps, 3), "None">> : ps \in PointArrays}
                \cup (Linear(1) \X (Linear(1) \cup {None}) \X (Linear(1) \cup {None}) \X {"None"})
                \cup {a \in {Scalar("float", "None", 1), Scalar("Quantity", "length", 1)}
                            \X {Scalar("float", "None", 0)} \X {Scalar("float", "None", 0)}
                            \X PhysTypes :
                        \A i \in 1..3 : Convertible(a[i], a[4])}
      [] cls = "Spherical" ->
            (Angles \X Angles \X Distances)
                \cup (Angular(0) \X Angular(0) \X Linear(1))
      [] cls = "UnitSpherical" ->
            (Angles \X Angles) \cup (Angular(0) \X Angular(0))
      [] cls = "PhysicsSpherical" ->
            (Angles \X Angles \X Distances)
                \cup (Angular(0) \X Angular(90) \X Linear(1))
      [] cls = "Cylindrical" ->
            {<<Scalar("Quantity", pt, rho), phi, Scalar("Quantity", pt, z)>> :
                rho \in Lin, phi \in Angles, z \in Lin, pt \in PhysTypes}
                \cup (Linear(1) \X Angular(0) \X Linear(1))
                \cup {<<Column(ps, 1),
                         Q("Quantity", "angle", <<Len(ps)>>,
                           Tuple([i \in 1..Len(ps) |-> N(ps[i][2])])),
                         Column(ps, 3)>> : ps \in RadialArrays}

Construct(cls, a) ==
    CASE cls = "Cartesian" -> CartesianRepresentation(a[1], a[2], a[3], a[4])
      [] cls = "Spherical" -> SphericalRepresentation(a[1], a[2], a[3])
      [] cls = "UnitSpherical" -> UnitSphericalRepresentation(a[1], a[2])
      [] cls = "PhysicsSpherical" -> PhysicsSphericalRepresentation(a[1], a[2], a[3])
      [] cls = "Cylindrical" -> CylindricalRepresentation(a[1], a[2], a[3])

\* The lattice carries the conversion when arctan2 is taken of pairs on an
\* axis: a Cartesian point with x or y zero (and z or s zero for the
\* spherical classes), a Cylindrical point with rho or z zero.
Spherelike == {"Spherical", "UnitSpherical", "PhysicsSpherical"}
OnLattice(cls, cart) ==
    \A i \in 1..Len(cart.x.v) :
        /\ OnAxis(cart.y.v[i], cart.x.v[i])
        /\ cls \in Spherelike =>
               OnAxis(cart.z.v[i], Add(Sq(cart.x.v[i]), Sq(cart.y.v[i])))
Convertable(obj, cls) ==
    CASE obj.cls = "Cartesian" -> OnLattice(cls, obj)
      [] obj.cls = "Cylindrical" /\ cls \in Spherelike ->
             \A i \in 1..Len(obj.rho.v) : OnAxis(obj.z.v[i], obj.rho.v[i])
      [] OTHER -> TRUE

\* ------------------------------------------------------------ actions
\* A run: the caller constructs one representation from raw components and
\* makes one call on it; the heap then holds it and what the call made.
Idle == [op |-> "none", cls |-> "None", self |-> 0, args |-> <<>>, ret |-> Raise("none")]
Ref(i) == Existing(i, heap[i])
\* Variant: a conversion builds its result in the storage of the
\* representation made last.
KeptInPlace(ret) ==
    IF ret.err = "none" /\ ret.id = 0
    THEN IF heap = <<>> THEN <<ret.obj>> ELSE [heap EXCEPT ![Len(heap)] = ret.obj]
    ELSE heap
Keep(ret) == IF ret.err = "none" /\ ret.id = 0 THEN Append(heap, ret.obj) ELSE heap
Constructed == call.op = "new" /\ heap # <<>>
\* r.to_cartesian() returned: its result is what from_cartesian is given next.
Converted == call.op = "to_cartesian" /\ call.ret.err = "none"
Result == IF call.ret.id > 0 THEN call.ret.id ELSE Len(heap)

\* No frame transform is made in the runs of the representations.
NoEdge == [fn |-> "none"]
NoThreads == <<>>

Init ==
    /\ numpy \in Builds
    /\ heap = <<>>
    /\ call = Idle
    /\ edge = NoEdge
    /\ registry = Loaded
    /\ threads = NoThreads

\* cls(*args)
New(cls, a) ==
    /\ LET ret == Construct(cls, a)
       IN  /\ call' = [op |-> "new", cls |-> cls, self |-> 0, args |-> a, ret |-> ret]
           /\ heap' = Keep(ret)
    /\ UNCHANGED <<numpy, edge, registry, threads>>

\* heap[i].represent_as(cls)
RepresentAs(i, cls) ==
    /\ Convertable(heap[i], cls)
    /\ LET ret == represent_as(Ref(i), cls)
       IN  /\ call' = [op |-> "represent_as", cls |-> cls, self |-> i, args |-> <<>>, ret |-> ret]
           /\ heap' = Keep(ret)
    /\ UNCHANGED <<numpy, edge, registry, threads>>

\* cls.from_representation(heap[i])
FromRepresentation(cls, i) ==
    /\ Convertable(heap[i], cls)
    /\ LET ret == from_representation(cls, Ref(i))
       IN  /\ call' = [op |-> "from_representation", cls |-> cls, self |-> i,
                       args |-> <<>>, ret |-> ret]
           /\ heap' = Keep(ret)
    /\ UNCHANGED <<numpy, edge, registry, threads>>

\* heap[i].to_cartesian()
ToCartesian(i) ==
    /\ LET ret == to_cartesian(Ref(i))
       IN  /\ call' = [op |-> "to_cartesian", cls |-> "Cartesian", self |-> i,
                       args |-> <<>>, ret |-> ret]
           /\ heap' = Keep(ret)
    /\ UNCHANGED <<numpy, edge, registry, threads>>

\* cls.from_cartesian(heap[i]), heap[i] Cartesian
FromCartesian(cls, i) ==
    /\ heap[i].cls = "Cartesian"
    /\ Convertable(heap[i], cls)
    /\ LET ret == from_cartesian(cls, Ref(i))
       IN  /\ call' = [op |-> "from_cartesian", cls |-> cls, self |-> i,
                       args |-> <<>>, ret |-> ret]
           /\ heap' = Keep(ret)
    /\ UNCHANGED <<numpy, edge, registry, threads>>

Next ==
    \/ call = Idle /\ \E cls \in Classes : \E a \in Args(cls) : New(cls, a)
    \/ Constructed /\ \E i \in 1..Len(heap), cls \in Classes : RepresentAs(i, cls)
    \/ Constructed /\ \E i \in 1..Len(heap), cls \in Classes : FromRepresentation(cls, i)
    \/ Constructed /\ \E i \in 1..Len(heap) : ToCartesian(i)
    \/ Constructed /\ \E i \in 1..Len(heap), cls \in Classes : FromCartesian(cls, i)
    \/ Converted /\ \E cls \in Classes : FromCartesian(cls, Result)

Spec == Init /\ [][Next]_vars


\* ------------------------------------------------------------ frames
\* cirs_observed_transforms.py.  What the collaborators compute (ERFA, the
\* IERS table, the CIRS -> CIRS edge) is kept as a term naming the routine
\* and its inputs, so that two results are equal exactly when they were
\* computed by the same routine from the same inputs.

\* A Time: scalar or an array of instants.
Time(shape, jd) == [shape |-> shape, jd |-> jd]
Instants == 0..MaxTime
Obstimes ==
    {Time(<<>>, <<t>>) : t \in Instants}
        \cup {Time(<<MaxTimes>>, jd) : jd \in [1..MaxTimes -> Instants]}
At(time, i) == IF Len(time.jd) = 1 THEN time.jd[1] ELSE time.jd[i]
Longest(t1, t2) == IF Len(t1.jd) > Len(t2.jd) THEN Len(t1.jd) ELSE Len(t2.jd)
\* t1 != t2, element by element
NotEqual(t1, t2) == Tuple([i \in 1..Longest(t1, t2) |-> At(t1, i) # At(t2, i)])
NpAll(v) == \A i \in 1..Len(v) : v[i]
NpAny(v) == \E i \in 1..Len(v) : v[i]

\* Frames: a class, the data (a representation, or none) and the attributes.
NoData == [cls |-> "None"]
CIRS(data, obstime) == [cls |-> "CIRS", data |-> data, obstime |-> obstime]
AltAz(data, obstime, location, weather) ==
    [cls |-> "AltAz", data |-> data, obstime |-> obstime, location |-> location,
     pressure |-> weather.pressure, temperature |-> weather.temperature,
     relative_humidity |-> weather.relative_humidity, obswl |-> weather.obswl]
\* ITRS has the attribute obstime; GCRS declares none.
ITRS(data, obstime) == [cls |-> "ITRS", data |-> data, obstime |-> obstime]
GCRS(data) == [cls |-> "GCRS", data |-> data]
\* frame.realize_frame(rep): the same class and attributes, the data rep.
realize_frame(frame, rep) == [frame EXCEPT !.data = rep]

\* What an edge returns, with the calls it made on its collaborators.
Failed(e, log) == [err |-> e, frame |-> NoData, log |-> log]
Returned(frame, log) == [err |-> "none", frame |-> frame, log |-> log]

\* The CIRS -> CIRS edge: the data re-expressed at the obstime of the frame.
cirs_to_cirs(from_coo, to_frame) ==
    LET entry == [fn |-> "cirs_to_cirs", from |-> from_coo.obstime, to |-> to_frame.obstime]
    IN  Returned(CIRS([cls |-> "UnitSpherical",
                       lon |-> [fn |-> "cirs_to_cirs.ra", of |-> from_coo.data,
                                from |-> from_coo.obstime, to |-> to_frame.obstime],
                       lat |-> [fn |-> "cirs_to_cirs.dec", of |-> from_coo.data,
                                from |-> from_coo.obstime, to |-> to_frame.obstime]],
                      to_frame.obstime),
                 <<entry>>)

\* iers.IERS.open().pm_xy(time.jd1, time.jd2)
_get_polar_motion(time) ==
    [xp |-> [fn |-> "pm_x", jd |-> time.jd], yp |-> [fn |-> "pm_y", jd |-> time.jd]]
\* time.delta_ut1_utc[0]
FirstDeltaUT1UTC(time) == [fn |-> "delta_ut1_utc", jd |-> time.jd[1]]
\* An AltAz frame whose location was not given: the attribute is None.
NoLocation == [fn |-> "None", name |-> "None"]
\* location.geodetic
geodetic(location) ==
    [lon |-> [fn |-> "geodetic.lon", of |-> location],
     lat |-> [fn |-> "geodetic.lat", of |-> location],
     height |-> [fn |-> "geodetic.height", of |-> location]]
\* erfa.apio13: the context is a term of its twelve inputs.
apio13(jd, dut1, lon, lat, height, xp, yp, pressure, temperature, rh, obswl) ==
    [fn |-> "apio13", jd |-> jd, dut1 |-> dut1, lon |-> lon, lat |-> lat,
     height |-> height, xp |-> xp, yp |-> yp, pressure |-> pressure,
     temperature |-> temperature, relative_humidity |-> rh, obswl |-> obswl]
\* erfa.atioq(ri, di, astrom): az and zen of the five values returned.
atioq(ri, di, astrom) ==
    [az |-> [fn |-> "atioq.az", ri |-> ri, di |-> di, astrom |-> astrom],
     zen |-> [fn |-> "atioq.zen", ri |-> ri, di |-> di, astrom |-> astrom]]
\* Variant: the zenith distance itself is taken as the latitude.
ZenithAsLatitude(x) == x

\* _PIOVER2 - x
PiOver2Minus(x) == [fn |-> "pi/2 -", of |-> x]

\* transform_to reads the transform graph as it is.
Graph == registry
RECURSIVE Reach(_, _)
Reach(S, n) ==
    IF n = 0 THEN S
    ELSE Reach(S \cup {g[2] : g \in {h \in Graph : h[1] \in S}}, n - 1)
\* An edge or a chain of edges leads from class a to class b.
Connected(a, b) == b \in Reach({g[2] : g \in {h \in Graph : h[1] = a}}, Cardinality(FrameClasses))
\* Variant: where no path exists the coordinate is handed back as it is.
Unconverted(coo, frame) == Returned(coo, <<>>)
\* No path: the graph raises its ConvertError.
NoPath(coo, frame) == Failed("ConvertError", <<>>)

\* The function registered for a pair of classes.
EdgeFor(a, b) ==
    CASE a = "CIRS" /\ b = "CIRS" -> "cirs_to_cirs"
      [] a = "CIRS" /\ b = "AltAz" -> "cirs_to_altaz"
      [] a = "AltAz" /\ b = "CIRS" -> "altaz_to_cirs"
      [] a = "AltAz" /\ b = "AltAz" -> "altaz_to_altaz"

\* coo.transform_to(frame): the graph finds the path between the two
\* classes and invokes its edges; between the classes connected here every
\* path is one edge.
RECURSIVE transform_to(_, _)

cirs_to_altaz(cirs_coo, altaz_frame) ==
    LET differ == NpAll(NotEqual(cirs_coo.obstime, altaz_frame.obstime))
        rec == IF differ
               THEN transform_to(cirs_coo, CIRS(NoData, altaz_frame.obstime))
               ELSE Returned(cirs_coo, <<>>)
        coo == rec.frame
        cirs_ra == coo.data.lon
        cirs_dec == coo.data.lat
        loc == geodetic(altaz_frame.location)
        pm == _get_polar_motion(coo.obstime)
        astrom == apio13(coo.obstime.jd, FirstDeltaUT1UTC(coo.obstime),
                         loc.lon, loc.lat, loc.height, pm.xp, pm.yp,
                         altaz_frame.pressure, altaz_frame.temperature,
                         altaz_frame.relative_humidity, altaz_frame.obswl)
        obs == atioq(cirs_ra, cirs_dec, astrom)
        rep == [cls |-> "UnitSpherical", lon |-> obs.az, lat |-> PiOver2Minus(obs.zen)]
    IN  IF rec.err # "none" THEN rec
        ELSE IF altaz_frame.location = NoLocation THEN Failed("AttributeError", rec.log)
        ELSE Returned(realize_frame(altaz_frame, rep),
                      rec.log \o <<[fn |-> "pm_xy", time |-> coo.obstime],
                                   [fn |-> "apio13", astrom |-> astrom],
                                   [fn |-> "atioq", ri |-> cirs_ra, di |-> cirs_dec,
                                    astrom |-> astrom]>>)

\* az and zen are read from the data; the next statement reads the name
\* altaz_frame, which the function does not define, and raises NameError.
altaz_to_cirs(altaz_coo, cirs_frame) ==
    IF altaz_coo.data = NoData THEN Failed("ValueError", <<>>)
    ELSE Failed("NameError", <<>>)

altaz_to_altaz(from_coo, to_frame) ==
    LET first == transform_to(from_coo, CIRS(NoData, from_coo.obstime))
        second == transform_to(first.frame, to_frame)
    IN  IF first.err # "none" THEN first
        ELSE IF second.err # "none" THEN Failed(second.err, first.log \o second.log)
        ELSE Returned(second.frame, first.log \o second.log)

transform_to(coo, frame) ==
    IF ~Connected(coo.cls, frame.cls) THEN NoPath(coo, frame) ELSE
    LET name == EdgeFor(coo.cls, frame.cls)
        ret == CASE name = "cirs_to_cirs" -> cirs_to_cirs(coo, frame)
                 [] name = "cirs_to_altaz" -> cirs_to_altaz(coo, frame)
                 [] name = "altaz_to_cirs" -> altaz_to_cirs(coo, frame)
                 [] name = "altaz_to_altaz" -> altaz_to_altaz(coo, frame)
    IN  [ret EXCEPT !.log = <<[fn |-> "transform_to", edge |-> name]>> \o ret.log]

\* The coordinates and frames the transforms are invoked on.
Points == {[cls |-> "UnitSpherical", lon |-> [fn |-> "lon", of |-> p],
            lat |-> [fn |-> "lat", of |-> p]] : p \in {"star"}}
Locations == {[fn |-> "EarthLocation", name |-> n] : n \in {"site", "pole"}}
Weathers ==
    {[pressure |-> 0, temperature |-> 0, relative_humidity |-> 0, obswl |-> 1],
     [pressure |-> 1, temperature |-> 1, relative_humidity |-> 1, obswl |-> 1]}
CIRSCoords == {CIRS(d, t) : d \in Points, t \in Obstimes}
CIRSFrames == {CIRS(NoData, t) : t \in Obstimes}
Sited == Locations \cup {NoLocation}
AltAzCoords ==
    {AltAz(d, t, l, w) : d \in Points, t \in Obstimes, l \in Sited, w \in Weathers}
AltAzFrames == {AltAz(NoData, t, l, w) : t \in Obstimes, l \in Sited, w \in Weathers}
Places == {[cls |-> "Cartesian", x |-> [fn |-> "x", of |-> p], y |-> [fn |-> "y", of |-> p],
            z |-> [fn |-> "z", of |-> p]] : p \in {"station"}}
ITRSCoords == {ITRS(d, t) : d \in Places, t \in Obstimes}
GCRSCoords == {GCRS(d) : d \in Points}
\* Requests between classes of which this module connects at most one.
Requests ==
    ((ITRSCoords \cup GCRSCoords) \X (AltAzFrames \cup CIRSFrames))
        \cup ((AltAzCoords \cup CIRSCoords)
                  \X ({ITRS(NoData, t) : t \in Obstimes} \cup {GCRS(NoData)}))
\* Times that compare: of one shape, or one of them scalar.
Comparable(t1, t2) == t1.shape = t2.shape \/ t1.shape = <<>> \/ t2.shape = <<>>

\* Variant: the composed edge takes itself out of the graph once it ran.
EdgeDropped(name, graph) ==
    IF name = "altaz_to_altaz" THEN graph \ {<<"AltAz", "AltAz">>} ELSE graph
\* The graph after an edge was invoked.  The bodies of the three functions
\* call transform_to, which reads the graph; none registers or removes an
\* edge: the decorators run when the module is imported, not in a call.
GraphAfter(name, graph) == graph

\* Variant: line 39 writes the reconciled coordinate through to the source.
SourceReconciled(coo, frame) ==
    [coo |-> IF coo.cls = "CIRS" /\ frame.cls = "AltAz"
                    /\ NpAll(NotEqual(coo.obstime, frame.obstime))
             THEN cirs_to_cirs(coo, CIRS(NoData, frame.obstime)).frame
             ELSE coo,
     frame |-> frame]
\* The arguments of an edge once it has returned or raised.  No statement
\* of the three functions assigns to an attribute or an element of a
\* parameter: line 39 rebinds the local name cirs_coo, and the arrays handed
\* to UnitSphericalRepresentation with copy=False are new ones.
ArgumentsAfter(coo, frame) == [coo |-> coo, frame |-> frame]

\* A run of the frames: one transform, through the graph.
Invoke(name, coo, frame) ==
    /\ edge' = [fn |-> name, coo |-> coo, frame |-> frame, ret |-> transform_to(coo, frame),
                after |-> ArgumentsAfter(coo, frame)]
    /\ registry' = GraphAfter(name, registry)
    /\ UNCHANGED <<numpy, heap, call, threads>>
\* The edges registered here, by the names of their functions.
ModuleEdges == {"cirs_to_altaz", "altaz_to_cirs", "altaz_to_altaz"}
\* The same call once more, on the arguments as the first call left them.
Again ==
    /\ edge' = [fn |-> "again", of |-> edge.fn, coo |-> edge.coo, frame |-> edge.frame,
                first |-> edge.ret,
                ret |-> transform_to(edge.after.coo, edge.after.frame),
                after |-> ArgumentsAfter(edge.after.coo, edge.after.frame)]
    /\ registry' = GraphAfter(edge.fn, registry)
    /\ UNCHANGED <<numpy, heap, call, threads>>

CirsToAltaz(coo, frame) ==
    /\ Comparable(coo.obstime, frame.obstime)
    /\ Invoke("cirs_to_altaz", coo, frame)
AltazToCirs(coo, frame) == Invoke("altaz_to_cirs", coo, frame)
AltazToAltaz(coo, frame) ==
    /\ Comparable(coo.obstime, frame.obstime)
    /\ Invoke("altaz_to_altaz", coo, frame)

TransformTo(coo, frame) == Invoke("transform_to", coo, frame)

\* The AltAz coordinate a CIRS -> AltAz transform returned is transformed
\* back to a CIRS frame of the source's obstime.
Back ==
    /\ edge' = [fn |-> "round_trip", coo |-> edge.ret.frame,
                frame |-> CIRS(NoData, edge.coo.obstime),
                origin |-> edge.coo, forward |-> edge.ret,
                ret |-> transform_to(edge.ret.frame, CIRS(NoData, edge.coo.obstime))]
    /\ registry' = GraphAfter("altaz_to_cirs", registry)
    /\ UNCHANGED <<numpy, heap, call, threads>>

InitFrames ==
    /\ numpy = "strict"
    /\ heap = <<>>
    /\ call = Idle
    /\ edge = NoEdge
    /\ registry = Loaded
    /\ threads = NoThreads

NextFrames ==
    \/ edge = NoEdge /\ \E coo \in CIRSCoords, frame \in AltAzFrames : CirsToAltaz(coo, frame)
    \/ edge = NoEdge /\ \E coo \in AltAzCoords, frame \in CIRSFrames : AltazToCirs(coo, frame)
    \/ edge = NoEdge /\ \E coo \in AltAzCoords, frame \in AltAzFrames : AltazToAltaz(coo, frame)
    \/ edge.fn = "cirs_to_altaz" /\ edge.ret.err = "none" /\ Back
    \/ edge = NoEdge /\ \E r \in Requests : TransformTo(r[1], r[2])
    \/ edge.fn \in ModuleEdges /\ Again

SpecFrames == InitFrames /\ [][NextFrames]_vars

\* ------------------------------------------------------------ threads
\* Threads of one process share the graph.  The module is imported first,
\* its decorators registering the edges one after the other; then each
\* thread makes a transform: it asks for it, the graph looks up the path,
\* and the edge found runs.
\* Number of threads.
NThreads == 2
Threads == 1..NThreads
Pending == [err |-> "pending", frame |-> NoData, log |-> <<>>]
IdleThread == [pc |-> "idle", coo |-> NoData, frame |-> NoData, name |-> "none", ret |-> Pending]
RegistrationOrder == <<<<"CIRS", "AltAz">>, <<"AltAz", "CIRS">>, <<"AltAz", "AltAz">>>>
Imported == Registered \subseteq registry
\* The transforms the threads ask for: at one time and another, from and to
\* AltAz, and one between classes that no edge connects.
ThreadRequests ==
    LET star == CHOOSE p \in Points : TRUE
        station == CHOOSE p \in Places : TRUE
        site == [fn |-> "EarthLocation", name |-> "site"]
        calm == [pressure |-> 0, temperature |-> 0, relative_humidity |-> 0, obswl |-> 1]
        t0 == Time(<<>>, <<0>>)
        t1 == Time(<<>>, <<MaxTime>>)
    IN  {<<CIRS(star, t0), AltAz(NoData, t0, site, calm)>>,
         <<CIRS(star, t0), AltAz(NoData, t1, site, calm)>>,
         <<AltAz(star, t0, site, calm), CIRS(NoData, t1)>>,
         <<AltAz(star, t0, site, calm), AltAz(NoData, t1, site, calm)>>,
         <<ITRS(station, t0), AltAz(NoData, t0, site, calm)>>}

\* The next decorator of the module runs.
Register(i) ==
    /\ \A j \in 1..(i - 1) : RegistrationOrder[j] \in registry
    /\ RegistrationOrder[i] \notin registry
    /\ registry' = registry \cup {RegistrationOrder[i]}
    /\ UNCHANGED <<numpy, heap, call, edge, threads>>
\* Thread t calls coo.transform_to(frame).
Ask(t, coo, frame) ==
    /\ threads[t].pc = "idle"
    /\ threads' = [threads EXCEPT ![t] = [pc |-> "asked", coo |-> coo, frame |-> frame,
                                          name |-> "none", ret |-> Pending]]
    /\ UNCHANGED <<numpy, heap, call, edge, registry>>
\* The graph looks up the path for the transform of thread t.
Find(t) ==
    /\ threads[t].pc = "asked"
    /\ threads' = [threads EXCEPT
                      ![t].pc = "found",
                      ![t].name = IF Connected(threads[t].coo.cls, threads[t].frame.cls)
                                  THEN EdgeFor(threads[t].coo.cls, threads[t].frame.cls)
                                  ELSE "none"]
    /\ UNCHANGED <<numpy, heap, call, edge, registry>>
\* The edge found for thread t runs, the transforms nested in it included,
\* and returns or raises.
Run(t) ==
    /\ threads[t].pc = "found"
    /\ threads' = [threads EXCEPT
                      ![t].pc = "done",
                      ![t].ret = transform_to(threads[t].coo, threads[t].frame)]
    /\ registry' = GraphAfter(threads[t].name, registry)
    /\ UNCHANGED <<numpy, heap, call, edge>>

InitThreads ==
    /\ numpy = "strict"
    /\ heap = <<>>
    /\ call = Idle
    /\ edge = NoEdge
    /\ registry = Elsewhere
    /\ threads = [t \in Threads |-> IdleThread]

NextThreads ==
    \/ \E i \in 1..Len(RegistrationOrder) : Register(i)
    \/ Imported /\ \E t \in Threads, r \in ThreadRequests : Ask(t, r[1], r[2])
    \/ \E t \in Threads : Find(t)
    \/ \E t \in Threads : Run(t)

SpecThreads == InitThreads /\ [][NextThreads]_vars

\* ------------------------------------------------------------ properties
\* The components of a representation, to floating-point tolerance.
Values(q) == Map1(Approx, q.v)
Components(obj) ==
    CASE obj.cls = "Cartesian" -> <<Values(obj.x), Values(obj.y), Values(obj.z)>>
      [] obj.cls = "Spherical" -> <<Values(obj.lon), Values(obj.lat), Values(obj.distance)>>
      [] obj.cls = "UnitSpherical" -> <<Values(obj.lon), Values(obj.lat)>>
      [] obj.cls = "PhysicsSpherical" ->
             <<Values(obj.phi), Values(obj.theta), Values(obj.distance)>>
      [] obj.cls = "Cylindrical" -> <<Values(obj.rho), Values(obj.phi), Values(obj.z)>>
      [] OTHER -> <<>>
SameComponents(a, b) == a.cls = b.cls /\ Components(a) = Components(b)
\* Two results agree: the same error, or representations of equal components.
Agree(r1, r2) == r1.err = r2.err /\ SameComponents(r1.obj, r2.obj)

Called(op) == call.op = op /\ call.self > 0
Self == heap[call.self]

\* C1: r.represent_as(type of r), and so type(r).from_representation(r),
\* returns r itself for every variant: the object returned is the one the
\* call was made on and no representation is constructed.
C1_OwnTypeReturnsSelf ==
    (Called("represent_as") \/ Called("from_representation")) /\ call.cls = Self.cls
        => /\ call.ret = Ref(call.self)
           /\ Len(heap) = 1
C1_Witness ==
    /\ Called("represent_as")
    /\ call.cls = Self.cls
    /\ Self.cls = "PhysicsSpherical"
    /\ call.ret.id = call.self

\* C2 as stated: for every Spherical representation the short cut to
\* PhysicsSpherical gives the (phi, theta, distance) of the generic path
\* PhysicsSpherical.from_cartesian(spherical.to_cartesian()).
ShortcutToPhysics == Called("represent_as") /\ Self.cls = "Spherical" /\ call.cls = "PhysicsSpherical"
SameTurn(a, b) == (a - b) % 360 = 0
OverrideToSpherical ==
    Called("represent_as") /\ Self.cls = "PhysicsSpherical" /\ call.cls = "Spherical"
C3_OverrideSucceeds ==
    OverrideToSpherical
        => /\ ViaCartesian(Ref(call.self), "Spherical").err = "none"
           /\ call.ret.err = "none"

\* C4: V.from_cartesian(r.to_cartesian()) reproduces every component of r;
\* here for the Cylindrical representations that the Cartesian point
\* determines: rho >= 0, phi in (-180, 180] degrees, and phi = 0 where
\* rho = 0.
RoundTrip == Called("from_cartesian") /\ call.cls = heap[1].cls
Determined(obj) ==
    /\ obj.cls = "Cylindrical"
    /\ \A i \in 1..Len(obj.rho.v) :
           /\ Approx(obj.rho.v[i]) >= 0
           /\ -180 < Approx(obj.phi.v[i]) /\ Approx(obj.phi.v[i]) <= 180
           /\ Approx(obj.rho.v[i]) = 0 => Approx(obj.phi.v[i]) = 0
C4_RoundTripCylindrical ==
    RoundTrip /\ Determined(heap[1])
        => call.ret.err = "none" /\ SameComponents(call.ret.obj, heap[1])

\* C5: CylindricalRepresentation.from_cartesian of a Cartesian representation
\* of any shape does not fail and gives, point by point, rho = sqrt(x^2 + y^2),
\* z copied, phi = 0 where rho = 0 and phi = atan2(y, x) of that point
\* elsewhere.
ToCylindrical == Called("from_cartesian") /\ call.cls = "Cylindrical"
PointPhi(x, y) == IF Add(Sq(x), Sq(y)).m = 0 THEN 0 ELSE Approx(Arctan2(y, x))
C5_PhiPerPoint ==
    ToCylindrical
        => /\ call.ret.err = "none"
           /\ Components(call.ret.obj) =
                  <<Tuple([i \in 1..Len(Self.x.v) |->
                              Approx(Sqrt(Add(Sq(Self.x.v[i]), Sq(Self.y.v[i]))))]),
                    Tuple([i \in 1..Len(Self.x.v) |-> PointPhi(Self.x.v[i], Self.y.v[i])]),
                    Values(Self.z)>>

\* The call cls(*args) and the components it was given.
Constructing(cls) == call.op = "new" /\ call.cls = cls
Given == IF call.cls = "UnitSpherical" THEN SubSeq(call.args, 1, 2) ELSE SubSeq(call.args, 1, 3)
AllGiven == \A i \in 1..Len(Given) : Given[i] # None
PhysType(x, unit) == AsQuantity(x, unit).pt
\* The components that must share a physical type do not.
Mismatch ==
    /\ AllGiven
    /\ CASE call.cls = "Cartesian" ->
                Cardinality({PhysType(call.args[i], call.args[4]) : i \in 1..3}) > 1
          [] call.cls = "Cylindrical" ->
                PhysType(call.args[1], "None") # PhysType(call.args[3], "None")
          [] OTHER -> FALSE
NothingConstructed == heap = <<>> /\ call.ret.obj = NoRep

\* C6: constructing a Cartesian representation from x, y, z, or a
\* Cylindrical one from rho, phi, z, raises UnitsError exactly when x, y, z
\* (rho, z) are not of one physical type, and then no object exists; no
\* construction of agreeing components raises UnitsError.
C6_UnitsErrorIffMismatch ==
    call.op = "new"
        => /\ AllGiven => (call.ret.err = "UnitsError" <=> Mismatch)
           /\ ~Mismatch => call.ret.err # "UnitsError"
           /\ call.ret.err = "UnitsError" => NothingConstructed
C6_Witness ==
    /\ Constructing("Cartesian")
    /\ Mismatch
    /\ call.ret.err = "UnitsError"
    /\ NothingConstructed

\* Every component of a representation has one and the same shape.
OneShape(obj) ==
    CASE obj.cls = "Cartesian" -> obj.x.shape = obj.y.shape /\ obj.y.shape = obj.z.shape
      [] obj.cls = "Spherical" ->
             obj.lon.shape = obj.lat.shape /\ obj.lat.shape = obj.distance.shape
      [] obj.cls = "UnitSpherical" -> obj.lon.shape = obj.lat.shape
      [] obj.cls = "PhysicsSpherical" ->
             obj.phi.shape = obj.theta.shape /\ obj.theta.shape = obj.distance.shape
      [] obj.cls = "Cylindrical" ->
             obj.rho.shape = obj.phi.shape /\ obj.phi.shape = obj.z.shape
AllOneShape == \A i \in 1..Len(heap) : OneShape(heap[i])
Unbroadcastable == call.op = "new" /\ ~Broadcastable(Given)

\* C7 as stated: construction from components that do not broadcast to one
\* shape raises ValueError and no object exists; the components of every
\* representation constructed have one common shape.
C7_UnbroadcastableRaisesValueError ==
    /\ Unbroadcastable => call.ret.err = "ValueError" /\ NothingConstructed
    /\ AllOneShape

\* C7 amended: construction from components that do not broadcast fails
\* and no object exists; the error is ValueError, unless the components of a
\* Cartesian or Cylindrical representation also disagree in physical type,
\* which is found first and raises UnitsError.  The components of every
\* representation constructed have one common shape, the broadcast shape of
\* the components given.
C7_UnbroadcastableFails ==
    /\ Unbroadcastable
           => /\ call.ret.err = (IF Mismatch THEN "UnitsError" ELSE "ValueError")
              /\ NothingConstructed
    /\ AllOneShape
    /\ call.op = "new" /\ call.ret.err = "none" /\ AllGiven
           => call.ret.obj[IF call.cls \in {"Cartesian"} THEN "x"
                           ELSE IF call.cls = "Cylindrical" THEN "rho"
                           ELSE IF call.cls = "PhysicsSpherical" THEN "phi"
                           ELSE "lon"].shape = CommonShape(Given)
\* Components that neither broadcast nor agree in physical type.
C7_WitnessUnitsFirst ==
    /\ Unbroadcastable
    /\ Mismatch
    /\ call.ret.err = "UnitsError"

\* The edge invoked, its arguments and the calls it made.
Edge(name) == edge.fn = name
Made(fn) == {i \in 1..Len(edge.ret.log) : edge.ret.log[i].fn = fn}
Reconciled == Made("cirs_to_cirs") # {}
\* The source as CIRS at the observation time of the target.
AtTargetTime == cirs_to_cirs(edge.coo, CIRS(NoData, edge.frame.obstime)).frame

\* C8: in the CIRS -> AltAz edge the source is re-expressed as CIRS at the
\* target's observation time exactly when the two observation times differ,
\* in at least one instant for arrays; the polar motion, the context and
\* the ra/dec observed are then those at the target's observation time.
C8_ReconciledWhenTimesDiffer ==
    Edge("cirs_to_altaz") /\ edge.ret.err = "none"
        => LET differ == NpAny(NotEqual(edge.coo.obstime, edge.frame.obstime))
               log == edge.ret.log
           IN  /\ Reconciled <=> differ
               /\ differ =>
                      /\ \A i \in Made("pm_xy") : log[i].time = edge.frame.obstime
                      /\ \A i \in Made("apio13") : log[i].astrom.jd = edge.frame.obstime.jd
                      /\ \A i \in Made("atioq") :
                             /\ log[i].ri = AtTargetTime.data.lon
                             /\ log[i].di = AtTargetTime.data.lat

C10_AltazToCirsCompletes ==
    Edge("altaz_to_cirs") /\ edge.coo.data # NoData /\ edge.coo.location # NoLocation
        => edge.ret.err = "none"

\* The edges of this module invoked through the graph, in the order of the
\* invocations, the edge called first included.
IsModuleEdge(entry) ==
    entry.fn = "transform_to"
        /\ entry.edge \in ModuleEdges
Chain == [i \in 1..Len(SelectSeq(edge.ret.log, IsModuleEdge)) |->
             SelectSeq(edge.ret.log, IsModuleEdge)[i].edge]
SameAttributes(a, b) ==
    /\ a.obstime = b.obstime
    /\ a.location = b.location
    /\ a.pressure = b.pressure
    /\ a.temperature = b.temperature
    /\ a.relative_humidity = b.relative_humidity
    /\ a.obswl = b.obswl

\* C11: every AltAz -> AltAz transform is the AltAz -> CIRS edge followed by
\* the CIRS -> AltAz edge and returns an AltAz instance with the attributes
\* of the target; two astrometry contexts are computed, and the source is
\* never returned as it was.
C11_AltazToAltazThroughCirs ==
    Edge("altaz_to_altaz")
        => /\ edge.ret.err = "none"
           /\ Chain = <<"altaz_to_altaz", "altaz_to_cirs", "cirs_to_altaz">>
           /\ edge.ret.frame.cls = "AltAz"
           /\ SameAttributes(edge.ret.frame, edge.frame)
           /\ Cardinality(Made("apio13")) = 2
           /\ edge.ret.frame # edge.coo

\* A CIRS coordinate was taken to AltAz and back, the observation time of
\* the AltAz frame being that of the coordinate.
RoundTripMatching == Edge("round_trip") /\ edge.coo.obstime = edge.origin.obstime
Contexts(log) == [i \in 1..Len(SelectSeq(log, LAMBDA e : e.fn = "apio13")) |->
                     SelectSeq(log, LAMBDA e : e.fn = "apio13")[i].astrom]

\* C12: CIRS -> AltAz -> CIRS with the same location, time and atmosphere
\* reproduces the ra/dec of the source: the inverse edge completes, builds
\* its context from the time, location, polar motion and atmosphere the
\* forward edge used, and returns the source's coordinates.
C12_RoundTripReproduces ==
    RoundTripMatching
        => /\ edge.ret.err = "none"
           /\ Contexts(edge.ret.log) = Contexts(edge.forward.log)
           /\ edge.ret.frame.cls = "CIRS"
           /\ edge.ret.frame.obstime = edge.origin.obstime
           /\ edge.ret.frame.data = edge.origin.data

\* A transform to or from AltAz was asked for, and the AltAz frame has no
\* location.
ToAltAzUnsited == Edge("cirs_to_altaz") /\ edge.frame.location = NoLocation
FromAltAzUnsited == Edge("altaz_to_cirs") /\ edge.coo.location = NoLocation

\* C13: a transform to or from AltAz whose location is absent fails with the
\* frame-attribute error, the AttributeError of reading the location, and
\* with no other kind of error; no frame is returned.
C13_UnsitedRaisesAttributeError ==
    ToAltAzUnsited \/ FromAltAzUnsited
        => /\ edge.ret.err = "AttributeError"
           /\ edge.ret.frame = NoData

\* A transform was asked for between two classes that no edge and no chain
\* of edges connects.
Unsupported == Edge("transform_to") /\ ~Connected(edge.coo.cls, edge.frame.cls)

\* C14: with the edges this module registers, transform_to between two
\* frame classes that no edge or chain of edges connects fails with the
\* unsupported-path error, ConvertError, and does not return the source.
C14_UnconnectedRaisesConvertError ==
    Unsupported
        => /\ edge.ret.err = "ConvertError"
           /\ edge.ret.frame # edge.coo
           /\ edge.ret.frame = NoData
C14_Witness ==
    /\ Unsupported
    /\ edge.coo.cls = "ITRS"
    /\ edge.frame.cls = "AltAz"
    /\ edge.ret.err = "ConvertError"

Preserved == Len(heap') >= Len(heap) /\ \A i \in 1..Len(heap) : heap'[i] = heap[i]
\* What the call of a step returned is the object it was made on, and then
\* nothing was constructed, or one new representation.
SameOrNew ==
    call'.op # "new" /\ call'.ret.err = "none"
        => IF call'.ret.id > 0
           THEN call'.ret.id = call'.self /\ heap' = heap
           ELSE heap' = Append(heap, call'.ret.obj)

Started(t) == threads[t].pc # "idle"

Observing(name) ==
    /\ Edge(name) \/ (Edge("again") /\ edge.of = name)
    /\ IF name = "cirs_to_altaz" THEN edge.frame.location # NoLocation
       ELSE edge.coo.location # NoLocation
IsCollaborator(entry) == entry.fn \in {"pm_xy", "apio13", "atioq", "atoiq"}
\* The calls the invocation made on the table and on ERFA, in order.
Collaborators == SelectSeq(edge.ret.log, IsCollaborator)
LookupContextObserve(observe) ==
    /\ Len(Collaborators) = 3
    /\ Collaborators[1].fn = "pm_xy"
    /\ Collaborators[2].fn = "apio13"
    /\ Collaborators[3].fn = observe
    /\ Collaborators[3].astrom = Collaborators[2].astrom

\* C18: every invocation of CIRS -> AltAz and of AltAz -> CIRS makes, in
\* this order, one polar-motion lookup, one construction of the astrometry
\* context and one call of the observe (unobserve) routine with the context
\* just built; an invocation made again builds its context again.
C18_LookupContextObserveInOrder ==
    /\ Observing("cirs_to_altaz") => LookupContextObserve("atioq")
    /\ Observing("altaz_to_cirs") => LookupContextObserve("atoiq")

\* The offset UT1-UTC of one instant.
DeltaUT1UTC(jd) == [fn |-> "delta_ut1_utc", jd |-> jd]
\* In the context, what belongs to point k is taken at instant k.
SameInstant(astrom, k) ==
    /\ astrom.dut1 = DeltaUT1UTC(astrom.jd[k])
    /\ astrom.xp = [fn |-> "pm_x", jd |-> astrom.jd]
    /\ astrom.yp = [fn |-> "pm_y", jd |-> astrom.jd]

\* C19: in the contexts the CIRS -> AltAz and AltAz -> CIRS edges build, the
\* UT1-UTC offset used for element i of an observation time of several
\* instants is the offset of instant i, as the Julian date and the polar
\* motion are, and not the offset of the first instant for every element.
C19_OffsetOfEachInstant ==
    Edge("cirs_to_altaz") \/ Edge("altaz_to_cirs")
        => \A i \in Made("apio13") :
               \A k \in 1..Len(edge.ret.log[i].astrom.jd) :
                   SameInstant(edge.ret.log[i].astrom, k)

\* How often the chain of an invocation enters the edge named.
Entered(name) == Cardinality({i \in 1..Len(Chain) : Chain[i] = name})

\* C20: every AltAz -> AltAz transform ends, its chain of calls entering the
\* AltAz -> CIRS edge once, the CIRS -> AltAz edge once and the AltAz ->
\* AltAz edge only at the start; the CIRS -> AltAz and AltAz -> CIRS edges
\* enter neither themselves nor each other through a nested transform_to.
C20_ChainEntersEachEdgeOnce ==
    /\ Edge("altaz_to_altaz")
           => /\ Entered("altaz_to_altaz") = 1
              /\ Entered("altaz_to_cirs") = 1
              /\ Entered("cirs_to_altaz") = 1
    /\ Edge("cirs_to_altaz") => Chain = <<"cirs_to_altaz">>
    /\ Edge("altaz_to_cirs") => Chain = <<"altaz_to_cirs">>

====
